---- MODULE Spec2Model ----
(***************************************************************************)
(* Catalog Store of the movie project: the SQLite tables users and movies  *)
(* behind src/movie_storage/movie_storage_sql.py, and the derived queries  *)
(* of main.py that are computed over the mapping list_movies returns.      *)
(*                                                                         *)
(* Strings whose letter case, padding or byte order matters (user names,   *)
(* movie titles) are sequences of character codes, so that str.strip(),    *)
(* str.lower() and SQLite's BINARY collation are computed, not assumed.    *)
(* An optional value is <<>> for None and <<v>> for the value v.            *)
(***************************************************************************)
EXTENDS Integers, Sequences, FiniteSets, TLC

VARIABLES users, movies, foreign_keys, last

vars == <<users, movies, foreign_keys, last>>

(* ------------------------------ bounds --------------------------------- *)
\* at most this many entries in a mapping handed to a derived query
MaxRows == 3

(* --------------------------- input domains ----------------------------- *)
None == <<>>

\* "x", " x", "y", "y ", " " and ""
Names == { <<120>>, <<32, 120>>, <<121>>, <<121, 32>>, <<32>>, <<>> }
\* "A" and "a"
Titles == { <<65>>, <<97>> }
\* "A", "a", "B" and " a"
QueryTitles == { <<65>>, <<97>>, <<66>>, <<32, 97>> }
\* what a user may type: "A", "a", "b", "a ", " A" and "c"
TitleInputs == { <<65>>, <<97>>, <<98>>, <<97, 32>>, <<32, 65>>, <<99>> }
UserIds == { 1, 2 }
Years == { 1999 }
QueryYears == { 1999, 2005 }
Ratings == { 5, 8 }
Posters == { <<"p">> }
Notes == { None, <<"n">> }
OptRatings == { None } \cup { <<r>> : r \in Ratings }
OptNotes == Notes
OptYears == { None } \cup { <<y>> : y \in QueryYears }
\* outcome of executing a statement on the storage engine
IO == { "ok", "OperationalError" }

(* ------------------------------ strings -------------------------------- *)
\* characters str.strip() removes
Whitespace == (9..13) \cup (28..32)

RECURSIVE lstrip(_)
lstrip(s) ==
    IF s # <<>> /\ Head(s) \in Whitespace THEN lstrip(Tail(s)) ELSE s

RECURSIVE rstrip(_)
rstrip(s) ==
    IF s # <<>> /\ s[Len(s)] \in Whitespace
    THEN rstrip(SubSeq(s, 1, Len(s) - 1)) ELSE s

\* str.strip()
strip(s) == rstrip(lstrip(s))

\* str.lower()
lower(s) == [i \in 1..Len(s) |-> IF s[i] \in 65..90 THEN s[i] + 32 ELSE s[i]]

\* SQLite's BINARY collation (memcmp, a prefix sorts first): s < t
RECURSIVE BinaryLess(_, _)
BinaryLess(s, t) ==
    IF t = <<>> THEN FALSE
    ELSE IF s = <<>> THEN TRUE
    ELSE IF Head(s) # Head(t) THEN Head(s) < Head(t)
    ELSE BinaryLess(Tail(s), Tail(t))

Reverse(seq) == [i \in 1..Len(seq) |-> seq[Len(seq) + 1 - i]]

\* ORDER BY a text column: the rows of the finite set S, each a record with
\* the field key, ascending by key (keys are distinct in every use)
RECURSIVE OrderBy(_)
OrderBy(S) ==
    IF S = {} THEN <<>>
    ELSE LET m == CHOOSE x \in S :
                      \A y \in S \ {x} : ~BinaryLess(y.key, x.key)
         IN  <<m>> \o OrderBy(S \ {m})

(* ------------------------------- state --------------------------------- *)
\* users  : users[id] is the name of the users row with that id (AUTOINCREMENT
\*          hands out 1, 2, ... and no operation deletes a user)
\* movies : the rows of the movies table (the surrogate id column, which no
\*          operation reads, is left out)
\* foreign_keys : the foreign_keys pragma of the engine's connection. The
\*          engine is created once (create_engine, default pool) and every
\*          operation opens and closes its connection before it returns, so
\*          each engine.connect() hands out the one pooled connection, with
\*          the pragma as the last PRAGMA statement left it
\* last   : the most recent call: its name, arguments, the error that occurred
\*          inside it, whether that error reached the caller, and its result
NoCall == [op |-> "none", args |-> <<>>]

Call(op, args, err, raised, result) ==
    [op |-> op, args |-> args, err |-> err, raised |-> raised, result |-> result]

\* _init_db without PRAGMA foreign_keys = ON (SQLite's default is OFF)
init_db_nopragma == [users |-> <<>>, movies |-> {}, foreign_keys |-> FALSE]

\* _init_db on a new database file: the pragma is switched on and both
\* tables are created empty
init_db == [users |-> <<>>, movies |-> {}, foreign_keys |-> TRUE]

\* the module has been imported: _init_db() has run
Init ==
    /\ users = init_db.users
    /\ movies = init_db.movies
    /\ foreign_keys = init_db.foreign_keys
    /\ last = NoCall

(* ------------------------------- users --------------------------------- *)
\* SELECT id, name FROM users ORDER BY name, as [(id, name), ...]
list_users ==
    LET rows == OrderBy({ [key |-> users[id], id |-> id] : id \in 1..Len(users) })
    IN  [i \in 1..Len(rows) |-> <<rows[i].id, rows[i].key>>]

\* SELECT id FROM users WHERE name = :name
SelectUserId(tbl, name) == { id \in 1..Len(tbl) : tbl[id] = name }

\* get_or_create_user without name = name.strip()
GetOrCreate_nostrip(tbl, name) ==
    IF SelectUserId(tbl, name) # {}
    THEN [users |-> tbl, id |-> CHOOSE id \in SelectUserId(tbl, name) : TRUE]
    ELSE LET ins == Append(tbl, name)
         IN  [users |-> ins, id |-> CHOOSE id \in SelectUserId(ins, name) : TRUE]

\* what get_or_create_user does on the users table tbl once the name is known
\* to be non-empty: SELECT, and when there is no such row INSERT, commit and
\* SELECT again
GetOrCreate(tbl, name) ==
    LET n == strip(name) IN
    IF SelectUserId(tbl, n) # {}
    THEN [users |-> tbl, id |-> CHOOSE id \in SelectUserId(tbl, n) : TRUE]
    ELSE LET ins == Append(tbl, n)
         IN  [users |-> ins, id |-> CHOOSE id \in SelectUserId(ins, n) : TRUE]

get_or_create_user(name, io) ==
    /\ UNCHANGED movies
    /\ IF strip(name) = <<>> THEN
           /\ last' = Call("get_or_create_user", <<name>>, "ValueError", TRUE, 0)
           /\ UNCHANGED <<users, foreign_keys>>
       ELSE IF io # "ok" THEN
           /\ foreign_keys' = TRUE
           /\ last' = Call("get_or_create_user", <<name>>, io, TRUE, 0)
           /\ UNCHANGED users
       ELSE
           /\ foreign_keys' = TRUE
           /\ users' = GetOrCreate(users, name).users
           /\ last' = Call("get_or_create_user", <<name>>, "none", FALSE,
                           GetOrCreate(users, name).id)

(* ------------------------------- movies -------------------------------- *)
Row(user_id, title, year, rating, poster_url, note) ==
    [user_id |-> user_id, title |-> title, year |-> year, rating |-> rating,
     poster_url |-> poster_url, note |-> note]

\* WHERE user_id = :user_id AND title = :title
Matching(tbl, user_id, title) ==
    { row \in tbl : row.user_id = user_id /\ row.title = title }

\* list_movies selecting the columns of the schema without note
list_movies_of_nonote(tbl, user_id) ==
    LET rows == OrderBy({ [key |-> row.title, row |-> row] :
                          row \in { r \in tbl : r.user_id = user_id } })
    IN  [i \in 1..Len(rows) |->
            <<rows[i].key,
              [year |-> rows[i].row.year, rating |-> rows[i].row.rating,
               poster_url |-> rows[i].row.poster_url, note |-> None]>>]

\* SELECT title, year, rating, poster_url, note FROM movies
\* WHERE user_id = :user_id ORDER BY title, as the items of the dict that is
\* built from the rows in that order
list_movies_of(tbl, user_id) ==
    LET rows == OrderBy({ [key |-> row.title, row |-> row] :
                          row \in { r \in tbl : r.user_id = user_id } })
    IN  [i \in 1..Len(rows) |->
            <<rows[i].key,
              [year |-> rows[i].row.year, rating |-> rows[i].row.rating,
               poster_url |-> rows[i].row.poster_url, note |-> rows[i].row.note]>>]

list_movies(user_id) == list_movies_of(movies, user_id)

\* UNIQUE(title): the constraint without the user_id column
UniqueViolated_title(tbl, user_id, title) == \E row \in tbl : row.title = title

\* UNIQUE(user_id, title)
UniqueViolated(tbl, user_id, title) == Matching(tbl, user_id, title) # {}

\* FOREIGN KEY (user_id) REFERENCES users(id), checked when the pragma is on
ForeignKeyViolated(user_id) == foreign_keys /\ user_id \notin 1..Len(users)

add_movie(user_id, title, year, rating, poster_url, note, io) ==
    LET args == <<user_id, title, year, rating, poster_url, note>> IN
    /\ UNCHANGED <<users, foreign_keys>>
    /\ IF io # "ok" THEN
           /\ last' = Call("add_movie", args, io, FALSE, FALSE)
           /\ UNCHANGED movies
       ELSE IF \/ UniqueViolated(movies, user_id, title)
               \/ ForeignKeyViolated(user_id) THEN
           /\ last' = Call("add_movie", args, "IntegrityError", FALSE, FALSE)
           /\ UNCHANGED movies
       ELSE
           /\ movies' = movies \cup
                  { Row(user_id, title, year, rating, poster_url, note) }
           /\ last' = Call("add_movie", args, "none", FALSE, TRUE)

\* delete_movie with WHERE title = :title COLLATE NOCASE
delete_movie_nocase(user_id, title, io) ==
    LET args == <<user_id, title>> IN
    /\ UNCHANGED <<users, foreign_keys>>
    /\ IF io # "ok" THEN
           /\ last' = Call("delete_movie", args, io, TRUE, FALSE)
           /\ UNCHANGED movies
       ELSE
           LET hit == { row \in movies : /\ row.user_id = user_id
                                          /\ lower(row.title) = lower(title) } IN
           /\ movies' = movies \ hit
           /\ last' = Call("delete_movie", args, "none", FALSE,
                           Cardinality(hit) > 0)

delete_movie(user_id, title, io) ==
    LET args == <<user_id, title>> IN
    /\ UNCHANGED <<users, foreign_keys>>
    /\ IF io # "ok" THEN
           /\ last' = Call("delete_movie", args, io, TRUE, FALSE)
           /\ UNCHANGED movies
       ELSE
           LET hit == Matching(movies, user_id, title) IN
           /\ movies' = movies \ hit
           /\ last' = Call("delete_movie", args, "none", FALSE,
                           Cardinality(hit) > 0)

\* update_movie with SET rating = :rating, note = :note whenever either is given
update_movie_overwrite(user_id, title, rating, note, io) ==
    LET args == <<user_id, title, rating, note>> IN
    /\ UNCHANGED <<users, foreign_keys>>
    /\ IF rating = None /\ note = None THEN
           /\ last' = Call("update_movie", args, "none", FALSE, FALSE)
           /\ UNCHANGED movies
       ELSE IF io # "ok" THEN
           /\ last' = Call("update_movie", args, io, TRUE, FALSE)
           /\ UNCHANGED movies
       ELSE
           LET hit == Matching(movies, user_id, title)
               set(row) == [row EXCEPT
                   !.rating = IF rating # None THEN rating[1] ELSE @,
                   !.note = note]
           IN
           /\ movies' = (movies \ hit) \cup { set(row) : row \in hit }
           /\ last' = Call("update_movie", args, "none", FALSE,
                           Cardinality(hit) > 0)

\* update_movie with WHERE title = :title, without the user_id condition
update_movie_anyuser(user_id, title, rating, note, io) ==
    LET args == <<user_id, title, rating, note>> IN
    /\ UNCHANGED <<users, foreign_keys>>
    /\ IF rating = None /\ note = None THEN
           /\ last' = Call("update_movie", args, "none", FALSE, FALSE)
           /\ UNCHANGED movies
       ELSE IF io # "ok" THEN
           /\ last' = Call("update_movie", args, io, TRUE, FALSE)
           /\ UNCHANGED movies
       ELSE
           LET hit == { row \in movies : row.title = title }
               set(row) == [row EXCEPT
                   !.rating = IF rating # None THEN rating[1] ELSE @,
                   !.note = IF note # None THEN note ELSE @]
           IN
           /\ movies' = (movies \ hit) \cup { set(row) : row \in hit }
           /\ last' = Call("update_movie", args, "none", FALSE,
                           Cardinality(hit) > 0)

update_movie(user_id, title, rating, note, io) ==
    LET args == <<user_id, title, rating, note>> IN
    /\ UNCHANGED <<users, foreign_keys>>
    /\ IF rating = None /\ note = None THEN
           /\ last' = Call("update_movie", args, "none", FALSE, FALSE)
           /\ UNCHANGED movies
       ELSE IF io # "ok" THEN
           /\ last' = Call("update_movie", args, io, TRUE, FALSE)
           /\ UNCHANGED movies
       ELSE
           LET hit == Matching(movies, user_id, title)
               set(row) == [row EXCEPT
                   !.rating = IF rating # None THEN rating[1] ELSE @,
                   !.note = IF note # None THEN note ELSE @]
           IN
           /\ movies' = (movies \ hit) \cup { set(row) : row \in hit }
           /\ last' = Call("update_movie", args, "none", FALSE,
                           Cardinality(hit) > 0)

(* ---------------------------- specification ---------------------------- *)
\* The store with a storage engine that executes every statement.
GetOrCreateUser ==
    \E name \in Names : get_or_create_user(name, "ok")

AddMovie ==
    \E user_id \in UserIds, title \in Titles, year \in Years,
       rating \in Ratings, poster_url \in Posters, note \in Notes :
        add_movie(user_id, title, year, rating, poster_url, note, "ok")

DeleteMovie ==
    \E user_id \in UserIds, title \in Titles :
        delete_movie(user_id, title, "ok")

UpdateMovie ==
    \E user_id \in UserIds, title \in Titles, rating \in OptRatings,
       note \in OptNotes :
        update_movie(user_id, title, rating, note, "ok")

Next ==
    \/ GetOrCreateUser
    \/ AddMovie
    \/ DeleteMovie
    \/ UpdateMovie

Spec == Init /\ [][Next]_vars

\* The store with a storage engine that may fail to execute a statement
\* (database locked, disk I/O error): sqlite3.OperationalError out of
\* connection.execute.
GetOrCreateUserIO ==
    \E name \in Names, io \in IO : get_or_create_user(name, io)

AddMovieIO ==
    \E user_id \in UserIds, title \in Titles, year \in Years,
       rating \in Ratings, poster_url \in Posters, note \in Notes,
       io \in IO :
        add_movie(user_id, title, year, rating, poster_url, note, io)

DeleteMovieIO ==
    \E user_id \in UserIds, title \in Titles, io \in IO :
        delete_movie(user_id, title, io)

UpdateMovieIO ==
    \E user_id \in UserIds, title \in Titles, rating \in OptRatings,
       note \in OptNotes, io \in IO :
        update_movie(user_id, title, rating, note, io)

NextFail ==
    \/ GetOrCreateUserIO
    \/ AddMovieIO
    \/ DeleteMovieIO
    \/ UpdateMovieIO

SpecFail == Init /\ [][NextFail]_vars

(* --------------------------- derived queries --------------------------- *)
\* main.py computes these over the mapping storage.list_movies returns; the
\* mapping is the parameter movies, as the sequence of its items.

Min(S) == CHOOSE x \in S : \A y \in S : x <= y

\* the lookup comparing the stored title itself, not its lowercase form
find_movie_key_exact(items, user_title) ==
    LET wanted == lower(strip(user_title))
        hits == { i \in DOMAIN items : items[i][1] = wanted }
    IN  IF hits = {} THEN None ELSE <<items[Min(hits)][1]>>

find_movie_key_case_insensitive(items, user_title) ==
    LET wanted == lower(strip(user_title))
        hits == { i \in DOMAIN items : lower(items[i][1]) = wanted }
    IN  IF hits = {} THEN None ELSE <<items[Min(hits)][1]>>

\* list.sort: stable, ascending by item[1][key]
RECURSIVE StableInsert(_, _, _)
StableInsert(x, s, key) ==
    IF s = <<>> THEN <<x>>
    ELSE IF x[2][key] < Head(s)[2][key] THEN <<x>> \o s
    ELSE <<Head(s)>> \o StableInsert(x, Tail(s), key)

RECURSIVE StableSort(_, _)
StableSort(s, key) ==
    IF s = <<>> THEN <<>>
    ELSE StableInsert(s[Len(s)], StableSort(SubSeq(s, 1, Len(s) - 1), key), key)

\* sorted(..., reverse=True) that reverses the ascending result
sorted_unstable(items, key, reverse) ==
    IF reverse THEN Reverse(StableSort(items, key)) ELSE StableSort(items, key)

\* sorted(items, key=lambda item: item[1][key], reverse=reverse): with reverse
\* the list is reversed, sorted and reversed again, which keeps equal keys in
\* their original order
sorted(items, key, reverse) ==
    IF reverse THEN Reverse(StableSort(Reverse(items), key))
    ELSE StableSort(items, key)

get_sorted_movies(items) == sorted(items, "rating", TRUE)

get_sorted_movies_by_year(items) == sorted(items, "year", FALSE)

RECURSIVE FilterLoop(_, _, _, _)
FilterLoop(items, min_rating, start_year, end_year) ==
    IF items = <<>> THEN <<>>
    ELSE LET title == Head(items)[1]
             rating == Head(items)[2].rating
             year == Head(items)[2].year
             rest == FilterLoop(Tail(items), min_rating, start_year, end_year)
         IN  IF min_rating # None /\ rating < min_rating[1] THEN rest
             ELSE IF start_year # None /\ year < start_year[1] THEN rest
             ELSE IF end_year # None /\ year > end_year[1] THEN rest
             ELSE << <<title, year, rating>> >> \o rest

\* filter_movies comparing with <= and >=, which drops a movie on the bound
filter_movies_exclusive(items, min_rating, start_year, end_year) ==
    LET keep(i) ==
            /\ min_rating # None => items[i][2].rating > min_rating[1]
            /\ start_year # None => items[i][2].year > start_year[1]
            /\ end_year # None => items[i][2].year < end_year[1]
        F[n \in 0..Len(items)] ==
            IF n = 0 THEN <<>>
            ELSE IF keep(n)
                 THEN Append(F[n - 1], <<items[n][1], items[n][2].year,
                                         items[n][2].rating>>)
                 ELSE F[n - 1]
    IN  F[Len(items)]

\* the results list of filter_movies; with no movies the function returns
\* before it filters
filter_movies(items, min_rating, start_year, end_year) ==
    IF items = <<>> THEN <<>>
    ELSE FilterLoop(items, min_rating, start_year, end_year)

\* The derived queries applied to the mapping of one user, from every movies
\* table of at most MaxRows rows.
QueryRows ==
    { Row(1, title, year, rating, <<"p">>, None) :
        title \in QueryTitles, year \in QueryYears, rating \in Ratings }

QInit ==
    /\ users = << <<120>> >>
    /\ movies \in { S \in SUBSET QueryRows :
                      /\ Cardinality(S) <= MaxRows
                      /\ \A r1, r2 \in S : r1.title = r2.title => r1 = r2 }
    /\ foreign_keys = init_db.foreign_keys
    /\ last = NoCall

Query(op, args, result) ==
    /\ last' = Call(op, args, "none", FALSE, result)
    /\ UNCHANGED <<users, movies, foreign_keys>>

FindMovieKey ==
    \E user_title \in TitleInputs :
        Query("find_movie_key_case_insensitive", <<user_title>>,
              find_movie_key_case_insensitive(list_movies(1), user_title))

GetSortedMovies ==
    Query("get_sorted_movies", <<>>, get_sorted_movies(list_movies(1)))

GetSortedMoviesByYear ==
    Query("get_sorted_movies_by_year", <<>>,
          get_sorted_movies_by_year(list_movies(1)))

FilterMovies ==
    \E min_rating \in OptRatings, start_year \in OptYears, end_year \in OptYears :
        Query("filter_movies", <<min_rating, start_year, end_year>>,
              filter_movies(list_movies(1), min_rating, start_year, end_year))

QNext ==
    \/ FindMovieKey
    \/ GetSortedMovies
    \/ GetSortedMoviesByYear
    \/ FilterMovies

QSpec == QInit /\ [][QNext]_vars

(* ------------------------------- the CLI ------------------------------- *)
\* how many positional arguments a call of a storage function must pass and
\* how many it may pass (the def lines of movie_storage_sql.py)
Signature ==
    [ get_or_create_user |-> [required |-> 1, all |-> 1],
      list_movies |-> [required |-> 1, all |-> 1],
      add_movie |-> [required |-> 4, all |-> 6],
      delete_movie |-> [required |-> 2, all |-> 2],
      update_movie |-> [required |-> 2, all |-> 4] ]

\* Python binds the arguments of a call, or raises TypeError
Binds(fn, args) ==
    /\ Len(args) >= Signature[fn].required
    /\ Len(args) <= Signature[fn].all

\* main(): the handler each menu choice runs
actions ==
    "1" :> "list_movies" @@ "2" :> "add_movies" @@ "3" :> "delete_movies" @@
    "4" :> "update_movies" @@ "5" :> "get_stats_movies" @@
    "6" :> "get_random_movies" @@ "7" :> "search_movies" @@
    "8" :> "get_sorted_movies" @@ "9" :> "get_sorted_movies_by_year" @@
    "10" :> "filter_movies" @@ "11" :> "generate_website"

Handlers == { actions[c] : c \in DOMAIN actions }

\* what the user may type at the menu prompt
Choices == DOMAIN actions \cup { "0", "12", "" }

\* A handler of main.py. No handler calls storage.get_or_create_user, and the
\* first statement of every handler is movies = storage.list_movies(), a call
\* without arguments. user is the user id the handler resolved, calls are the
\* storage calls it issued. A TypeError out of the call leaves the handler and
\* main(), which catch nothing; the statements after the call run only when
\* the call returns.
Handler(name) ==
    LET call == [fn |-> "list_movies", args |-> <<>>] IN
    /\ UNCHANGED <<users, movies, foreign_keys>>
    /\ IF Binds(call.fn, call.args)
       THEN last' = [op |-> name, args |-> <<>>, err |-> "none",
                     raised |-> FALSE, result |-> list_movies(call.args[1]),
                     user |-> None, calls |-> <<call>>]
       ELSE last' = [op |-> name, args |-> <<>>, err |-> "TypeError",
                     raised |-> TRUE, result |-> <<>>,
                     user |-> None, calls |-> <<call>>]

\* the while loop of main() is at the menu prompt
Running == last.op \in { "none", "main_menu" }

MenuAction ==
    \E choice \in Choices :
        /\ Running
        /\ choice \in DOMAIN actions
        /\ Handler(actions[choice])

MenuExit ==
    /\ Running
    /\ last' = Call("main", <<"0">>, "none", FALSE, "exit")
    /\ UNCHANGED <<users, movies, foreign_keys>>

MenuInvalid ==
    \E choice \in Choices \ (DOMAIN actions \cup { "0" }) :
        /\ Running
        /\ last' = Call("main_menu", <<choice>>, "none", FALSE, "invalid")
        /\ UNCHANGED <<users, movies, foreign_keys>>

\* the database file as earlier runs of any front end left it
StoredUsers ==
    { <<>>, << <<120>> >>, << <<121>> >>,
      << <<120>>, <<121>> >>, << <<121>>, <<120>> >> }

StoredRows ==
    { Row(user_id, title, year, rating, poster_url, note) :
        user_id \in UserIds, title \in Titles, year \in Years,
        rating \in Ratings, poster_url \in Posters, note \in Notes }

CliInit ==
    /\ users \in StoredUsers
    /\ movies \in { S \in SUBSET StoredRows :
                      /\ \A r \in S : r.user_id \in 1..Len(users)
                      /\ \A r1, r2 \in S :
                             (r1.user_id = r2.user_id /\ r1.title = r2.title)
                                 => r1 = r2 }
    /\ foreign_keys = init_db.foreign_keys
    /\ last = NoCall

CliNext ==
    \/ MenuAction
    \/ MenuExit
    \/ MenuInvalid

CliSpec == CliInit /\ [][CliNext]_vars

(* ------------------------------ C1 ------------------------------------- *)
Entries(name) == { i \in DOMAIN list_users : list_users[i][2] = name }

\* C1 as stated: after get_or_create_user(name) has returned an id, calling it
\* again with the same name returns the same id and leaves the users table as
\* it is, and list_users() has exactly one entry whose name is the name passed.
C1_AsStated ==
    (last.op = "get_or_create_user" /\ ~last.raised) =>
        LET name == last.args[1]
            second == GetOrCreate(users, name)
        IN  /\ second.id = last.result
            /\ second.users = users
            /\ Cardinality(Entries(name)) = 1

\* C1 as amended: after get_or_create_user(name) has returned an id, calling it
\* again with the same name returns the same id and leaves the users table as
\* it is, and list_users() has exactly one entry whose name is the name passed
\* with its surrounding whitespace removed.
C1_Idempotent ==
    (last.op = "get_or_create_user" /\ ~last.raised) =>
        LET name == last.args[1]
            second == GetOrCreate(users, name)
        IN  /\ second.id = last.result
            /\ second.users = users
            /\ Cardinality(Entries(strip(name))) = 1

\* a padded name has been resolved in a table of two users
C1_Witness ==
    /\ last.op = "get_or_create_user"
    /\ ~last.raised
    /\ strip(last.args[1]) # last.args[1]
    /\ Len(users) = 2

(* ------------------------------ C2 ------------------------------------- *)
\* the dict lookup items[title]: the values stored under title, as a set
Values(items, title) == { items[i][2] : i \in { j \in DOMAIN items : items[j][1] = title } }

Keys(items) == { items[i][1] : i \in DOMAIN items }

\* C2: whenever add_movie(u, title, year, rating, poster_url, note) returns
\* true, list_movies(u) right afterwards maps title to exactly the year,
\* rating, poster_url and note passed, and maps every other title of u to
\* what it mapped to before the add.
C2_AddThenList ==
    [][ (last'.op = "add_movie" /\ last'.result) =>
            LET a == last'.args
                before == list_movies_of(movies, a[1])
                after == list_movies_of(movies', a[1])
            IN  /\ Values(after, a[2]) =
                       { [year |-> a[3], rating |-> a[4],
                          poster_url |-> a[5], note |-> a[6]] }
                /\ Len(after) = Cardinality(Keys(after))
                /\ Keys(after) = Keys(before) \cup { a[2] }
                /\ \A t \in Keys(before) \ { a[2] } :
                       Values(after, t) = Values(before, t) ]_vars

\* a movie with a note was added for a user who already had another title
C2_Witness ==
    /\ last.op = "add_movie"
    /\ last.result
    /\ last.args[6] # None
    /\ Len(list_movies(last.args[1])) = 2

(* ------------------------------ C3 ------------------------------------- *)
UniqueUserTitle ==
    \A r1, r2 \in movies :
        (r1.user_id = r2.user_id /\ r1.title = r2.title) => r1 = r2

\* C3: no user ever has two movie rows with the same exact title; add_movie(u,
\* t, ...) when u already has a movie titled exactly t returns false and
\* leaves the movies table unchanged; add_movie(u2, t, ...) for another user
\* u2 who has no movie titled t, while some user has one, returns true.
C3_UniquePerUser ==
    [][ /\ UniqueUserTitle'
        /\ last'.op = "add_movie" =>
            LET u == last'.args[1]
                t == last'.args[2]
            IN  /\ Matching(movies, u, t) # {} =>
                       (~last'.result /\ movies' = movies)
                /\ ( /\ u \in 1..Len(users)
                     /\ Matching(movies, u, t) = {}
                     /\ \E r \in movies : r.title = t /\ r.user_id # u )
                       => last'.result ]_vars

\* two users hold the same title, the second of them through the last call
C3_Witness ==
    /\ last.op = "add_movie"
    /\ last.result
    /\ last.args[1] \in 1..Len(users)
    /\ \E r \in movies : r.title = last.args[2] /\ r.user_id # last.args[1]

(* ------------------------------ C4 ------------------------------------- *)
\* C4: delete_movie(u, t) returns true exactly when u had a movie titled
\* exactly t before the call; after true, list_movies(u) has no t and maps
\* u's other titles as before, and no other user's rows change; after false
\* the movies table is unchanged.
C4_Delete ==
    [][ last'.op = "delete_movie" =>
            LET u == last'.args[1]
                t == last'.args[2]
                before == list_movies_of(movies, u)
                after == list_movies_of(movies', u)
            IN  /\ last'.result <=> (t \in Keys(before))
                /\ last'.result =>
                       /\ t \notin Keys(after)
                       /\ Keys(after) = Keys(before) \ { t }
                       /\ \A k \in Keys(after) :
                              Values(after, k) = Values(before, k)
                /\ ~last'.result => movies' = movies ]_vars

\* a title was deleted while the same user keeps the other-case title
C4_Witness ==
    /\ last.op = "delete_movie"
    /\ last.result
    /\ Len(list_movies(last.args[1])) = 1
    /\ lower(list_movies(last.args[1])[1][1]) = lower(last.args[2])

(* ------------------------------ C5 ------------------------------------- *)
Frame(row) ==
    [user_id |-> row.user_id, title |-> row.title, year |-> row.year,
     poster_url |-> row.poster_url]

\* C5: update_movie(u, t, rating?, note?) changes only the supplied fields of
\* the row (u, t): a field that is not supplied keeps its value, a supplied
\* one takes the value passed, every other row is unchanged, with neither
\* supplied the call returns false and the store is unchanged, and no row's
\* title, year, poster_url or user changes.
C5_PartialUpdate ==
    [][ last'.op = "update_movie" =>
            LET u == last'.args[1]
                t == last'.args[2]
                rating == last'.args[3]
                note == last'.args[4]
                hit == Matching(movies, u, t)
            IN  /\ { Frame(r) : r \in movies' } = { Frame(r) : r \in movies }
                /\ Cardinality(movies') = Cardinality(movies)
                /\ movies \ hit \subseteq movies'
                /\ \A r \in hit : \E r2 \in Matching(movies', u, t) :
                       /\ r2.rating = IF rating = None THEN r.rating ELSE rating[1]
                       /\ r2.note = IF note = None THEN r.note ELSE note
                /\ (rating = None /\ note = None) =>
                       (~last'.result /\ movies' = movies)
                /\ users' = users ]_vars

\* only the rating of a row that carries a note was updated
C5_Witness ==
    /\ last.op = "update_movie"
    /\ last.result
    /\ last.args[3] # None
    /\ last.args[4] = None
    /\ \E r \in Matching(movies, last.args[1], last.args[2]) : r.note # None

(* ------------------------------ C7 ------------------------------------- *)
\* C7: every movie row's user_id is the id of an existing users row, and
\* add_movie with a user id that no user has returns false and creates no
\* movie row.
C7_ReferentialIntegrity ==
    /\ \A row \in movies : row.user_id \in 1..Len(users)
    /\ (last.op = "add_movie" /\ last.args[1] \notin 1..Len(users)) =>
           ~last.result

\* add_movie was refused for a user id that no user has, next to a user who
\* has movies
C7_Witness ==
    /\ last.op = "add_movie"
    /\ last.args[1] \notin 1..Len(users)
    /\ last.err = "IntegrityError"
    /\ movies # {}

(* ------------------------------ C6 ------------------------------------- *)
\* C6: a storage-layer failure inside add_movie, delete_movie or update_movie
\* never reaches the caller: the call returns false.
C6_FailuresBecomeFalse ==
    (last.op \in { "add_movie", "delete_movie", "update_movie" }
        /\ last.err # "none") => (~last.raised /\ ~last.result)

(* ------------------------------ C8 ------------------------------------- *)
CaseMatches(items, text) == { t \in Keys(items) : lower(t) = lower(text) }

\* C8 as stated: find_movie_key_case_insensitive returns a stored title whose
\* lowercase form equals the lowercase form of the input whenever there is
\* one, and returns None exactly when there is none.
C8_AsStated ==
    last.op = "find_movie_key_case_insensitive" =>
        LET m == CaseMatches(list_movies(1), last.args[1])
        IN  /\ m # {} => (last.result # None /\ last.result[1] \in m)
            /\ last.result = None <=> m = {}

\* C8 as amended: find_movie_key_case_insensitive returns a stored title whose
\* lowercase form equals the lowercase form of the input with its surrounding
\* whitespace removed whenever there is one, and returns None exactly when
\* there is none.
C8_CaseInsensitiveLookup ==
    last.op = "find_movie_key_case_insensitive" =>
        LET m == CaseMatches(list_movies(1), strip(last.args[1]))
        IN  /\ m # {} => (last.result # None /\ last.result[1] \in m)
            /\ last.result = None <=> m = {}

\* an input resolved to a stored title of another letter case
C8_Witness ==
    /\ last.op = "find_movie_key_case_insensitive"
    /\ last.result # None
    /\ last.result[1] # strip(last.args[1])

(* ------------------------------ C9 ------------------------------------- *)
IsPermutation(s, t) ==
    /\ Len(s) = Len(t)
    /\ { s[i] : i \in DOMAIN s } = { t[i] : i \in DOMAIN t }

Passes(item, min_rating, start_year, end_year) ==
    /\ min_rating # None => item[2].rating >= min_rating[1]
    /\ start_year # None => item[2].year >= start_year[1]
    /\ end_year # None => item[2].year <= end_year[1]

MovieOps == { "add_movie", "delete_movie", "update_movie" }

\* C12: an add_movie, delete_movie or update_movie call made with user id u
\* leaves list_movies(v) as it was for every other user id v, and so does
\* every sequence of such calls.
C12_PartitionIsolation ==
    [][ last'.op \in MovieOps =>
            \A v \in UserIds \ { last'.args[1] } :
                list_movies_of(movies', v) = list_movies_of(movies, v) ]_vars

\* a movie call changed a row of one user while another user holds the same
\* title
C12_Witness ==
    /\ last.op \in MovieOps
    /\ last.result
    /\ \E v \in UserIds \ { last.args[1] } :
           last.args[2] \in Keys(list_movies(v))

(* ------------------------------ C11 ------------------------------------ *)
\* C11: every menu action that touches the catalog has resolved a user name
\* to a user id through get_or_create_user, and every storage call it issues
\* passes that id as its user id.
C11_UserScoped ==
    last.op \in Handlers =>
        /\ last.user # None
        /\ \A i \in DOMAIN last.calls :
               /\ last.calls[i].args # <<>>
               /\ last.calls[i].args[1] = last.user[1]
====
